---- MODULE Spec2Model ----
(***************************************************************************)
(* A model of the MCBM class of cmt (src/code/cmt/src/mcbm.cpp): the       *)
(* training configuration MCBM::Parameters and its callback ownership, the *)
(* constructor, the flat parameter buffer built by MCBM::parameters and    *)
(* read back by MCBM::setParameters, the objective and gradient routine    *)
(* MCBM::computeGradient behind the optimizer callback evaluateLBFGS, and  *)
(* the finite-difference checker MCBM::checkGradient.                      *)
(*                                                                         *)
(* Numbers.  Parameters and inputs are integers; a log-score s stands for  *)
(* the real number s * ln 2, so that exp(s) is the integer 2^s.  A         *)
(* log-probability is kept exactly as the rational inside the logarithm:   *)
(* the record [num |-> a, den |-> b] in a log-valued place (logLik, the    *)
(* value returned by computeGradient) stands for ln(a / b).  Adding two    *)
(* logarithms multiplies the rationals.  Gradient entries are rationals    *)
(* [num, den] standing for num / den.  The constant normConst of           *)
(* computeGradient is kept as its integer factor, the number of columns.   *)
(***************************************************************************)
EXTENDS Integers, Sequences, FiniteSets, TLC

VARIABLES
    pc,        \* position of the running call
    mcbm,      \* the MCBM objects: object id -> fields
    params,    \* the MCBM::Parameters passed to the running call
    x,         \* the flat parameter buffer (a sequence, x[k+1] is C's x[k])
    src,       \* object parameters() was called on
    dst,       \* object setParameters() was called on
    data,      \* the dataset: inputCompl and outputCompl, column by column
    cg,        \* the activation record of computeGradient
    fx,        \* the value evaluateLBFGS returned
    chk,       \* the locals of checkGradient
    cfgs,      \* the MCBM::Parameters objects of the callback-ownership runs
    heap,      \* the callback objects ever allocated
    built,     \* how the constructor call ended
    ret,       \* what train() returned
    lbfgs      \* how the optimizer run ended

vars == <<pc, mcbm, params, x, src, dst, data, cg, fx, chk, cfgs, heap, built, ret, lbfgs>>

vecVars == <<src, dst>>
evalVars == <<data, cg, fx>>
cfgVars == <<cfgs, heap>>
ctorVars == <<built, ret, lbfgs>>

\* The variables a run does not use keep these values.
VecIdle == src = 0 /\ dst = 0
EvalIdle == data = <<>> /\ cg = <<>> /\ fx = <<>>
ChkIdle == chk = <<>>
CfgIdle == cfgs = <<>> /\ heap = <<>>
CtorIdle == built = "" /\ ret = "" /\ lbfgs = "not run"

----------------------------------------------------------------------------
(* Bounds of the model. *)

MaxDim == 2          \* dimIn, numComponents, numFeatures range over 1..MaxDim
NumFills == 3        \* number of distinct contents a store starts with
MaxData == 3         \* a dataset has 1..MaxData columns
MaxBatch == 4        \* the largest batch size configured
MaxConfigs == 2      \* MCBM::Parameters objects alive at a time
MaxCallbacks == 4    \* callback objects allocated in a run
MaxEpsilon == 2      \* the step of the finite differences is 1..MaxEpsilon
MaxSlices == MaxData + 2   \* iterations of the batch loop that are followed

----------------------------------------------------------------------------
(* Parameter groups and their shapes. *)

\* The six groups in the order parameters() and setParameters() visit them.
Groups == <<"mPriors", "mWeights", "mFeatures", "mPredictors", "mInputBias", "mOutputBias">>

GroupSet == {Groups[i] : i \in 1..Len(Groups)}

GroupIndex(g) == CHOOSE i \in 1..Len(Groups) : Groups[i] = g

\* Rows and columns of each group as the constructor allocates them.
Rows(m, g) ==
    CASE g = "mPriors"     -> m.mNumComponents
      [] g = "mWeights"    -> m.mNumComponents
      [] g = "mFeatures"   -> m.mDimIn
      [] g = "mPredictors" -> m.mNumComponents
      [] g = "mInputBias"  -> m.mDimIn
      [] g = "mOutputBias" -> m.mNumComponents

Cols(m, g) ==
    CASE g = "mPriors"     -> 1
      [] g = "mWeights"    -> m.mNumFeatures
      [] g = "mFeatures"   -> m.mNumFeatures
      [] g = "mPredictors" -> m.mDimIn
      [] g = "mInputBias"  -> m.mNumComponents
      [] g = "mOutputBias" -> 1

\* size() of a group.
Size(m, g) == Rows(m, g) * Cols(m, g)

\* An R x C matrix is a function on <<row, column>>, both counted from 0.
Index(R, C) == (0..(R - 1)) \X (0..(C - 1))

\* data()[i] for i = 0..size-1: Eigen stores a matrix column by column.
Data(M, R, C) == [i \in 1..(R * C) |-> M[<<(i - 1) % R, (i - 1) \div R>>]]

\* Map<Matrix>(ptr + offset, R, C) over the buffer buf, read row-major:
\* the mutation of MapMatrix used to test the round-trip claims.
MapMatrixRowMajor(buf, offset, R, C) ==
    [rc \in Index(R, C) |-> buf[offset + rc[1] * C + rc[2] + 1]]

\* Map<Matrix>(ptr + offset, R, C) over the buffer buf: element (r, c) is
\* ptr[offset + c * R + r].
MapMatrix(buf, offset, R, C) ==
    [rc \in Index(R, C) |-> buf[offset + rc[2] * R + rc[1] + 1]]

\* The training flag of a group in a configuration.
Flag(P, g) ==
    CASE g = "mPriors"     -> P.trainPriors
      [] g = "mWeights"    -> P.trainWeights
      [] g = "mFeatures"   -> P.trainFeatures
      [] g = "mPredictors" -> P.trainPredictors
      [] g = "mInputBias"  -> P.trainInputBias
      [] g = "mOutputBias" -> P.trainOutputBias

----------------------------------------------------------------------------
(* MCBM::Parameters, the training configuration. *)

\* MCBM::Parameters::Parameters(): callback 0 is the null pointer.
DefaultParameters ==
    [verbosity |-> 0, maxIter |-> 1000, threshold |-> "1e-5", numGrad |-> 20,
     batchSize |-> 2000, callback |-> 0, cbIter |-> 25,
     trainPriors |-> TRUE, trainWeights |-> TRUE, trainFeatures |-> TRUE,
     trainPredictors |-> TRUE, trainInputBias |-> TRUE, trainOutputBias |-> TRUE,
     regularizeFeatures |-> 0, regularizePredictors |-> 0]

\* The configurations a caller passes: the default one with its public
\* training flags and batch size set.
Configs(batchSizes) ==
    {[DefaultParameters EXCEPT
         !.trainPriors = f[1], !.trainWeights = f[2], !.trainFeatures = f[3],
         !.trainPredictors = f[4], !.trainInputBias = f[5], !.trainOutputBias = f[6],
         !.batchSize = b] :
     f \in [1..6 -> BOOLEAN], b \in batchSizes}

----------------------------------------------------------------------------
(* The parameter store of an MCBM object. *)

\* Contents a store can hold.  Fills that are not multiples of 3 give every
\* element of every group its own value; the others repeat small values of
\* both signs.
Fill(f, g, r, c) ==
    IF f % 3 = 0 THEN r - c + (f \div 3) - 1
    ELSE f * 1000 + GroupIndex(g) * 100 + r * 10 + c

\* An MCBM object with the shapes the constructor allocates (mcbm.cpp
\* 122-127) and the contents of fill f.
Model(dimIn, numComponents, numFeatures, f) ==
    LET shape == [mDimIn |-> dimIn, mNumComponents |-> numComponents,
                  mNumFeatures |-> numFeatures]
        group(g) == [rc \in Index(Rows(shape, g), Cols(shape, g)) |->
                        Fill(f, g, rc[1], rc[2])]
    IN [mDimIn |-> dimIn, mNumComponents |-> numComponents,
        mNumFeatures |-> numFeatures,
        mPriors |-> group("mPriors"), mWeights |-> group("mWeights"),
        mFeatures |-> group("mFeatures"), mPredictors |-> group("mPredictors"),
        mInputBias |-> group("mInputBias"), mOutputBias |-> group("mOutputBias")]

----------------------------------------------------------------------------
(* The vectorization layer: MCBM::parameters and MCBM::setParameters. *)

\* The loop "for(i = 0; i < group.size(); ++i, ++k) x[k] = group.data()[i]"
\* run on a buffer whose entries 0..k-1 are buf.
CopyGroup(buf, m, g) == buf \o Data(m[g], Rows(m, g), Cols(m, g))

\* A mutation of CopyFlagged: an unflagged group is zero-filled, not skipped.
CopyFlaggedZeroFill(buf, m, P, g) ==
    IF Flag(P, g) THEN CopyGroup(buf, m, g)
    ELSE buf \o [i \in 1..Size(m, g) |-> 0]

\* One "if(params.trainX) for(...)" statement of parameters().
CopyFlagged(buf, m, P, g) ==
    IF Flag(P, g) THEN CopyGroup(buf, m, g) ELSE buf

\* MCBM::parameters: the entries written into the buffer, in order of k.
parameters(m, P) ==
    LET x0 == <<>>
        x1 == CopyFlagged(x0, m, P, "mPriors")
        x2 == CopyFlagged(x1, m, P, "mWeights")
        x3 == CopyFlagged(x2, m, P, "mFeatures")
        x4 == CopyFlagged(x3, m, P, "mPredictors")
        x5 == CopyFlagged(x4, m, P, "mInputBias")
        x6 == CopyFlagged(x5, m, P, "mOutputBias")
    IN x6

\* One "if(params.trainX) { mX = Map(x + offset, rows, cols); offset +=
\* mX.size(); }" statement of setParameters(); st is [m, offset].
AssignFlagged(st, buf, P, g) ==
    IF Flag(P, g)
    THEN [m |-> [st.m EXCEPT ![g] = MapMatrix(buf, st.offset, Rows(st.m, g), Cols(st.m, g))],
          offset |-> st.offset + Size(st.m, g)]
    ELSE st

\* MCBM::setParameters: the object after the call.
setParameters(m, buf, P) ==
    LET s0 == [m |-> m, offset |-> 0]
        s1 == AssignFlagged(s0, buf, P, "mPriors")
        s2 == AssignFlagged(s1, buf, P, "mWeights")
        s3 == AssignFlagged(s2, buf, P, "mFeatures")
        s4 == AssignFlagged(s3, buf, P, "mPredictors")
        s5 == AssignFlagged(s4, buf, P, "mInputBias")
        s6 == AssignFlagged(s5, buf, P, "mOutputBias")
    IN s6.m

\* The objects of a run.
Obj == {1, 2}

\* Two objects of one shape, each with contents of its own.
InitVec ==
    /\ pc = "idle"
    /\ \E d \in 1..MaxDim, n \in 1..MaxDim, k \in 1..MaxDim, f \in [Obj -> 1..NumFills] :
          mcbm = [o \in Obj |-> Model(d, n, k, f[o])]
    /\ params = DefaultParameters
    /\ x = <<>>
    /\ VecIdle /\ EvalIdle /\ ChkIdle /\ CfgIdle /\ CtorIdle

\* x = a.parameters(cfg), for an object a and a configuration cfg.
CallParameters ==
    /\ pc = "idle"
    /\ \E a \in DOMAIN mcbm, P \in Configs({DefaultParameters.batchSize}) :
          /\ params' = P
          /\ src' = a
          /\ x' = parameters(mcbm[a], P)
    /\ pc' = "flat"
    /\ UNCHANGED <<mcbm, dst, evalVars, chk, cfgVars, ctorVars>>

\* b.setParameters(x, cfg), with the buffer and configuration of the last
\* parameters() call, for an object b.
CallSetParameters ==
    /\ pc = "flat"
    /\ \E b \in DOMAIN mcbm :
          /\ dst' = b
          /\ mcbm' = [mcbm EXCEPT ![b] = setParameters(mcbm[b], x, params)]
    /\ pc' = "set"
    /\ UNCHANGED <<params, x, src, evalVars, chk, cfgVars, ctorVars>>

NextVec == CallParameters \/ CallSetParameters

SpecVec == InitVec /\ [][NextVec]_vars

----------------------------------------------------------------------------
(* Exact arithmetic. *)

Min(a, b) == IF a < b THEN a ELSE b

Abs(a) == IF a < 0 THEN -a ELSE a

RECURSIVE GCD(_, _)
GCD(a, b) == IF b = 0 THEN a ELSE GCD(b, a % b)

RECURSIVE Pow2(_)
Pow2(n) == IF n = 0 THEN 1 ELSE 2 * Pow2(n - 1)

\* The content of memory nobody has written: not a number.
Uninit == [num |-> 0, den |-> 0]

\* The rational n / d in lowest terms with a positive denominator.
Rat(n, d) ==
    IF d = 0 THEN Uninit
    ELSE LET k == GCD(Abs(n), Abs(d))
             sg == IF d < 0 THEN -1 ELSE 1
         IN [num |-> sg * (n \div k), den |-> sg * (d \div k)]

Zero == Rat(0, 1)

One == Rat(1, 1)

RatAdd(a, b) ==
    IF a.den = 0 \/ b.den = 0 THEN Uninit
    ELSE LET l == (a.den \div GCD(a.den, b.den)) * b.den
         IN Rat(a.num * (l \div a.den) + b.num * (l \div b.den), l)

RatMul(a, b) ==
    IF a.den = 0 \/ b.den = 0 THEN Uninit
    ELSE LET a1 == Rat(a.num, b.den)
             b1 == Rat(b.num, a.den)
         IN Rat(a1.num * b1.num, a1.den * b1.den)

RatNeg(a) == [num |-> -a.num, den |-> a.den]

\* Sum of the integers f[e], e in S.
RECURSIVE SumOver(_, _)
SumOver(f, S) ==
    IF S = {} THEN 0
    ELSE LET e == CHOOSE e \in S : TRUE IN f[e] + SumOver(f, S \ {e})

\* Sum and product of the rationals f[e], e in S.
RECURSIVE RatSumOver(_, _)
RatSumOver(f, S) ==
    IF S = {} THEN Zero
    ELSE LET e == CHOOSE e \in S : TRUE IN RatAdd(f[e], RatSumOver(f, S \ {e}))

RECURSIVE RatProdOver(_, _)
RatProdOver(f, S) ==
    IF S = {} THEN One
    ELSE LET e == CHOOSE e \in S : TRUE IN RatMul(f[e], RatProdOver(f, S \ {e}))

----------------------------------------------------------------------------
(* MCBM::computeGradient, one column of the batch.                         *)
(*                                                                         *)
(* The exponentials and logarithms of the source are taken to base 2, so   *)
(* that integer log-scores have rational probabilities.  For log-scores    *)
(* that are all zero this is the source's arithmetic exactly; otherwise it *)
(* rescales every log-score by the positive constant ln 2.                 *)

\* The forward pass of one column (mcbm.cpp 342-368): v maps each group to
\* the matrix the routine reads for it, m gives the shapes, in is the input
\* column and y its output bit.
Column(v, m, in, y) ==
    LET D == 0..(m.mDimIn - 1)
        F == 0..(m.mNumFeatures - 1)
        K == 0..(m.mNumComponents - 1)
        \* featureOutput = features.transpose() * input
        featureOutput == [f \in F |->
            SumOver([d \in D |-> v.mFeatures[<<d, f>>] * in[d]], D)]
        featureOutputSq == [f \in F |-> featureOutput[f] * featureOutput[f]]
        weightsOutput == [c \in K |->
            SumOver([f \in F |-> v.mWeights[<<c, f>>] * featureOutputSq[f]], F)]
        predictorOutput == [c \in K |->
            SumOver([d \in D |-> v.mPredictors[<<c, d>>] * in[d]], D)]
        \* unnormalized log-posteriors over components for both outputs
        logPost0 == [c \in K |->
            weightsOutput[c]
            + SumOver([d \in D |-> v.mInputBias[<<d, c>>] * in[d]], D)
            + v.mPriors[<<c, 0>>]]
        logPost1 == [c \in K |->
            logPost0[c] + predictorOutput[c] + v.mOutputBias[<<c, 0>>]]
        \* logSumExp subtracts a common shift before exponentiating
        low == CHOOSE s \in {logPost0[c] : c \in K} \cup {logPost1[c] : c \in K} :
                  \A c \in K : s <= logPost0[c] /\ s <= logPost1[c]
        e0 == [c \in K |-> Pow2(logPost0[c] - low)]
        e1 == [c \in K |-> Pow2(logPost1[c] - low)]
        s0 == SumOver(e0, K)
        s1 == SumOver(e1, K)
        \* exp of the normalized log-probabilities of the two outputs
        prob0 == Rat(s0, s0 + s1)
        prob1 == Rat(s1, s0 + s1)
    IN [featureOutput |-> featureOutput,
        featureOutputSq |-> featureOutputSq,
        e0 |-> e0, e1 |-> e1, s0 |-> s0, s1 |-> s1,
        \* exp(output * logProb1 + (1 - output) * logProb0)
        prob |-> IF y = 1 THEN prob1 ELSE prob0]

\* The posterior terms of one column, computed only if g is not null
\* (mcbm.cpp 370-378); f is Column(v, m, in, y).
Posterior(f, m, y) ==
    LET K == 0..(m.mNumComponents - 1)
        \* tmp = output * exp(logProb0) - (1 - output) * exp(logProb1)
        tmp == Rat(y * f.s0 - (1 - y) * f.s1, f.s0 + f.s1)
        post0Tmp == [c \in K |-> RatMul(Rat(f.e0[c], f.s0), tmp)]
        post1Tmp == [c \in K |-> RatMul(Rat(f.e1[c], f.s1), tmp)]
    IN [post1Tmp |-> post1Tmp,
        postDiffTmp |-> [c \in K |-> RatAdd(post1Tmp[c], RatNeg(post0Tmp[c]))]]

\* What one column adds to element (r, c) of the gradient of group g
\* (mcbm.cpp 380-399); f is Column(v, m, in, y).
ColumnGradient(g, r, c, f, y, v, m, in) ==
    LET K == 0..(m.mNumComponents - 1)
        int(k) == Rat(k, 1)
        t == [featureOutput |-> f.featureOutput,
              featureOutputSq |-> f.featureOutputSq] @@ Posterior(f, m, y)
    IN CASE g = "mPriors"     -> t.postDiffTmp[r]
         [] g = "mWeights"    -> RatMul(t.postDiffTmp[r], int(t.featureOutputSq[c]))
         [] g = "mFeatures"   ->
               \* tmp2 = weights.transpose() * postDiffTmp * 2,
               \* tmp3 = featureOutput * tmp2, featuresGrad += input * tmp3'
               LET tmp2 == RatMul(int(2), RatSumOver(
                              [k \in K |-> RatMul(int(v.mWeights[<<k, c>>]), t.postDiffTmp[k])], K))
                   tmp3 == RatMul(int(t.featureOutput[c]), tmp2)
               IN RatMul(int(in[r]), tmp3)
         [] g = "mPredictors" -> RatMul(t.post1Tmp[r], int(in[c]))
         [] g = "mInputBias"  -> RatMul(int(in[r]), t.postDiffTmp[c])
         [] g = "mOutputBias" -> t.post1Tmp[r]

----------------------------------------------------------------------------
(* MCBM::computeGradient as a sequence of steps on its activation record.  *)
(*                                                                         *)
(* In an activation record a, a.g is the memory the pointer g addresses,    *)
(* indexed from 0: the caller's buffer and what lies behind it, up to the  *)
(* size of all six groups.  a.writes records who wrote which index of it,  *)
(* a.slices the middleCols(b, len) calls.  a.logLik holds the rational     *)
(* inside the logarithm of the accumulated log-likelihood.  ds is the      *)
(* dataset.                                                                *)

\* Size of all six groups together.
AllSize(m) ==
    Size(m, "mPriors") + Size(m, "mWeights") + Size(m, "mFeatures")
    + Size(m, "mPredictors") + Size(m, "mInputBias") + Size(m, "mOutputBias")

\* The activation record on entry: gIsNull says that g is the null pointer.
Enter(m, gIsNull) ==
    [pc |-> "views", gIsNull |-> gIsNull,
     g |-> [i \in 0..(AllSize(m) - 1) |-> Uninit],
     writes |-> {}, slices |-> <<>>,
     offset |-> 0, value |-> <<>>, gradAt |-> <<>>,
     numData |-> 0, batchSize |-> 0, b |-> 0,
     logLik |-> One, ret |-> <<>>]

\* The three statements that map one group (e.g. mcbm.cpp 292-295): the
\* value view over y + offset or over the stored group, the gradient view
\* over g + offset, and the advance of offset for a flagged group.
View(st, m, P, buf, g) ==
    [offset |-> IF Flag(P, g) THEN st.offset + Size(m, g) ELSE st.offset,
     value  |-> [grp \in DOMAIN st.value \cup {g} |->
                   IF grp # g THEN st.value[grp]
                   ELSE IF Flag(P, g) THEN MapMatrix(buf, st.offset, Rows(m, g), Cols(m, g))
                   ELSE m[g]],
     gradAt |-> [grp \in DOMAIN st.gradAt \cup {g} |->
                   IF grp # g THEN st.gradAt[grp] ELSE st.offset]]

\* mcbm.cpp 285-315: all views.
MapViews(a, m, P, buf) ==
    LET s0 == [offset |-> 0, value |-> <<>>, gradAt |-> <<>>]
        s1 == View(s0, m, P, buf, "mPriors")
        s2 == View(s1, m, P, buf, "mWeights")
        s3 == View(s2, m, P, buf, "mFeatures")
        s4 == View(s3, m, P, buf, "mPredictors")
        s5 == View(s4, m, P, buf, "mInputBias")
        s6 == View(s5, m, P, buf, "mOutputBias")
    IN [a EXCEPT !.pc = "zero", !.offset = s6.offset, !.value = s6.value,
                  !.gradAt = s6.gradAt]

\* The indices of a.g under the gradient view of group g.
ViewRange(a, m, g) == a.gradAt[g]..(a.gradAt[g] + Size(m, g) - 1)

\* A mutation of Touches: every gradient view is written, flagged or not.
TouchesAll(P, g) == TRUE

\* Whether the routine writes through the gradient view of group g (the
\* "if(params.trainX)" in front of each setZero() and each +=).
Touches(P, g) == Flag(P, g)

\* The groups, among the first n in order, whose gradient view is written.
Touched(P, n) == {Groups[i] : i \in {j \in 1..n : Touches(P, Groups[j])}}

\* The writes through the gradient views: who wrote which index.
ViewWrites(a, m, P) ==
    {w \in Touched(P, Len(Groups)) \X DOMAIN a.g : w[2] \in ViewRange(a, m, w[1])}

\* mcbm.cpp 317-335: the flagged gradient views are set to zero if g is not
\* null; then numData and batchSize are set and the loop starts at b = 0.
ZeroGradients(a, m, P, numData) ==
    LET hit(i) == {g \in Touched(P, Len(Groups)) : i \in ViewRange(a, m, g)}
    IN [a EXCEPT
          !.pc = "loop",
          !.g = IF a.gIsNull THEN a.g
                ELSE [i \in DOMAIN a.g |-> IF hit(i) # {} THEN Zero ELSE a.g[i]],
          !.writes = IF a.gIsNull THEN a.writes
                     ELSE a.writes \cup ViewWrites(a, m, P),
          !.numData = numData,
          !.batchSize = Min(P.batchSize, numData),
          !.b = 0]

\* The columns of middleCols(b, len), counted from 0.
MiddleCols(b, len) == b..(b + len - 1)

\* What the columns cols add to index i of a.g through the gradient view
\* of group g.
BatchGradient(a, m, ds, cols, g, i) ==
    LET k == i - a.gradAt[g]
        r == k % Rows(m, g)
        c == k \div Rows(m, g)
    IN RatSumOver(
          [n \in cols |->
              ColumnGradient(g, r, c,
                  Column(a.value, m, ds.input[n + 1], ds.output[n + 1]),
                  ds.output[n + 1], a.value, m, ds.input[n + 1])],
          cols)

\* a.g after "xGrad += ..." for the first n groups in order.
RECURSIVE Accumulate(_, _, _, _, _, _)
Accumulate(a, m, P, ds, cols, n) ==
    IF n = 0 THEN a.g
    ELSE LET before == Accumulate(a, m, P, ds, cols, n - 1)
             g == Groups[n]
         IN IF ~Touches(P, g) THEN before
            ELSE [i \in DOMAIN before |->
                    IF i \in ViewRange(a, m, g)
                    THEN RatAdd(before[i], BatchGradient(a, m, ds, cols, g, i))
                    ELSE before[i]]

\* A mutation of Advance: the loop steps by one column whatever the batch
\* size is.
AdvanceOne(a) == a.b + 1

\* "b += batchSize" of the batch loop.
Advance(a) == a.b + a.batchSize

\* One iteration of the batch loop (mcbm.cpp 337-400), for b < numData.
Batch(a, m, P, ds) ==
    LET len == Min(a.batchSize, a.numData - a.b)
        cols == MiddleCols(a.b, len)
    IN [a EXCEPT
          !.slices = Append(a.slices, <<a.b, len>>),
          !.logLik = RatMul(a.logLik,
                        RatProdOver([n \in cols |->
                            Column(a.value, m, ds.input[n + 1], ds.output[n + 1]).prob],
                            cols)),
          !.g = IF a.gIsNull THEN a.g
                ELSE Accumulate(a, m, P, ds, cols, Len(Groups)),
          !.writes = IF a.gIsNull THEN a.writes
                     ELSE a.writes \cup ViewWrites(a, m, P),
          !.b = Advance(a)]

\* "logLik / normConst" with normConst = cols / log(2.): the record stands
\* for log(logOf) / normConst.
Result(logLik, cols) == [logOf |-> logLik, over |-> cols]

\* mcbm.cpp 402-408, after the loop: g[i] /= normConst for i < offset, and
\* the value returned.
Normalize(a) ==
    [a EXCEPT
       !.pc = "return",
       !.g = IF a.gIsNull THEN a.g
             ELSE [i \in DOMAIN a.g |->
                     IF i < a.offset THEN RatMul(a.g[i], Rat(1, a.numData))
                     ELSE a.g[i]],
       !.writes = IF a.gIsNull THEN a.writes
                  ELSE a.writes \cup {<<"normalize", i>> : i \in 0..(a.offset - 1)},
       !.ret = Result(a.logLik, a.numData)]

\* The whole call, for a batch size of at least one.
RECURSIVE RunLoop(_, _, _, _)
RunLoop(a, m, P, ds) ==
    IF a.b < a.numData THEN RunLoop(Batch(a, m, P, ds), m, P, ds)
    ELSE Normalize(a)

computeGradient(m, ds, buf, gIsNull, P) ==
    RunLoop(ZeroGradients(MapViews(Enter(m, gIsNull), m, P, buf), m, P, Len(ds.input)),
            m, P, ds)

----------------------------------------------------------------------------
(* evaluateLBFGS, the optimizer's callback, calling computeGradient. *)

\* Parameter values of the evaluation runs: zero except at element (0, 0)
\* of each group.
SmallValue(f, g) ==
    CASE f % 3 = 1 -> 0
      [] f % 3 = 2 -> 1
      [] OTHER     -> (GroupIndex(g) % 3) - 1

EModel(dimIn, numComponents, numFeatures, f) ==
    LET shape == [mDimIn |-> dimIn, mNumComponents |-> numComponents,
                  mNumFeatures |-> numFeatures]
        group(g) == [rc \in Index(Rows(shape, g), Cols(shape, g)) |->
                        IF rc = <<0, 0>> THEN SmallValue(f, g) ELSE 0]
    IN [mDimIn |-> dimIn, mNumComponents |-> numComponents,
        mNumFeatures |-> numFeatures,
        mPriors |-> group("mPriors"), mWeights |-> group("mWeights"),
        mFeatures |-> group("mFeatures"), mPredictors |-> group("mPredictors"),
        mInputBias |-> group("mInputBias"), mOutputBias |-> group("mOutputBias")]

\* A dataset of N columns of binary inputs and outputs, the output of one
\* row.
Dataset(dimIn, N, p) ==
    [input  |-> [n \in 1..N |-> [d \in 0..(dimIn - 1) |-> (n + d + p) % 2]],
     output |-> [n \in 1..N |-> ((n + p) \div 2) % 2],
     outputRows |-> 1]

\* A model, a configuration, a dataset and a parameter vector of the
\* optimizer which differs from the stored parameters.
InitEval(dims, Ps, Ns, pats, fills) ==
    /\ pc = "idle"
    /\ \E d \in dims, n \in dims, k \in dims, f \in fills, N \in Ns, p \in pats,
          P \in Ps :
          /\ mcbm = [o \in {1} |-> EModel(d, n, k, f)]
          /\ params = P
          /\ data = Dataset(d, N, p)
          /\ x = parameters(EModel(d, n, k, f + 1), P)
    /\ cg = <<>>
    /\ fx = <<>>
    /\ VecIdle /\ ChkIdle /\ CfgIdle /\ CtorIdle

\* evaluateLBFGS(instance, x, g): unpacks the instance and calls
\* computeGradient; the optimizer passes a gradient buffer or none.
EvaluateLBFGS ==
    /\ pc = "idle"
    /\ \E gIsNull \in BOOLEAN : cg' = Enter(mcbm[1], gIsNull)
    /\ pc' = "computeGradient"
    /\ UNCHANGED <<mcbm, params, x, vecVars, data, fx, chk, cfgVars, ctorVars>>

StepViews ==
    /\ pc = "computeGradient" /\ cg.pc = "views"
    /\ cg' = MapViews(cg, mcbm[1], params, x)
    /\ UNCHANGED <<pc, mcbm, params, x, vecVars, data, fx, chk, cfgVars, ctorVars>>

StepZero ==
    /\ pc = "computeGradient" /\ cg.pc = "zero"
    /\ cg' = ZeroGradients(cg, mcbm[1], params, Len(data.input))
    /\ UNCHANGED <<pc, mcbm, params, x, vecVars, data, fx, chk, cfgVars, ctorVars>>

\* One iteration of the batch loop.  A negative slice length is outside
\* what middleCols is defined for: the run may go on with no columns (here)
\* or stop (StepAbort).
StepBatch ==
    /\ pc = "computeGradient" /\ cg.pc = "loop"
    /\ cg.b < cg.numData
    /\ Len(cg.slices) < MaxSlices
    /\ cg' = Batch(cg, mcbm[1], params, data)
    /\ UNCHANGED <<pc, mcbm, params, x, vecVars, data, fx, chk, cfgVars, ctorVars>>

\* middleCols(b, len) with a negative len or b fails Eigen's assertion when
\* assertions are compiled in.
StepAbort ==
    /\ pc = "computeGradient" /\ cg.pc = "loop"
    /\ cg.b < cg.numData
    /\ (cg.b < 0 \/ Min(cg.batchSize, cg.numData - cg.b) < 0)
    /\ pc' = "aborted"
    /\ UNCHANGED <<cg, mcbm, params, x, vecVars, data, fx, chk, cfgVars, ctorVars>>

StepNormalize ==
    /\ pc = "computeGradient" /\ cg.pc = "loop"
    /\ ~(cg.b < cg.numData)
    /\ cg' = Normalize(cg)
    /\ UNCHANGED <<pc, mcbm, params, x, vecVars, data, fx, chk, cfgVars, ctorVars>>

\* evaluateLBFGS returns what computeGradient returned.
ReturnLBFGS ==
    /\ pc = "computeGradient" /\ cg.pc = "return"
    /\ fx' = cg.ret
    /\ pc' = "done"
    /\ UNCHANGED <<cg, mcbm, params, x, vecVars, data, chk, cfgVars, ctorVars>>

NextEval ==
    \/ EvaluateLBFGS
    \/ StepViews
    \/ StepZero
    \/ StepBatch
    \/ StepNormalize
    \/ ReturnLBFGS

NextEvalAny == NextEval \/ StepAbort

\* The single groups and all groups together.
SomeFlags ==
    {P \in Configs({DefaultParameters.batchSize}) :
        \/ \A g \in GroupSet : Flag(P, g)
        \/ \E g \in GroupSet : \A h \in GroupSet : Flag(P, h) <=> (h = g)}

WithBatchSize(Ps, sizes) == {[P EXCEPT !.batchSize = b] : P \in Ps, b \in sizes}

\* Every shape and every set of flags, on two columns.
InitGrad ==
    InitEval(1..MaxDim, Configs(1..2), {2}, {0}, {2})

SpecGrad == InitGrad /\ [][NextEval]_vars

\* Every number of columns and every batch size of at least one.
InitBatch ==
    InitEval(1..MaxDim, WithBatchSize(SomeFlags, 1..MaxBatch), 1..MaxData, 0..1, {2})

SpecBatch == InitBatch /\ [][NextEval]_vars

\* Every number of columns and every batch size, positive or not.
InitBatchAny ==
    InitEval({1}, WithBatchSize(SomeFlags, -1..MaxBatch), 1..MaxData, 0..1, 1..NumFills)

SpecBatchAny == InitBatchAny /\ [][NextEvalAny]_vars

----------------------------------------------------------------------------
(* MCBM::checkGradient. *)

\* MCBM::numParameters (declared in mcbm.h): the length of the flat buffer,
\* the sizes of the flagged groups.
numParameters(m, P) ==
    (IF P.trainPriors THEN Size(m, "mPriors") ELSE 0)
    + (IF P.trainWeights THEN Size(m, "mWeights") ELSE 0)
    + (IF P.trainFeatures THEN Size(m, "mFeatures") ELSE 0)
    + (IF P.trainPredictors THEN Size(m, "mPredictors") ELSE 0)
    + (IF P.trainInputBias THEN Size(m, "mInputBias") ELSE 0)
    + (IF P.trainOutputBias THEN Size(m, "mOutputBias") ELSE 0)

\* input.rows() and output.rows() of a dataset with at least one column.
\* Of an output of several rows the record keeps the first row.
InputRows(ds) == Cardinality(DOMAIN ds.input[1])
OutputRows(ds) == ds.outputRows

\* A model and a configuration as for the evaluation runs, and a dataset
\* whose input may have any number of rows, whose output may have two
\* rows and may have one column too many.
InitCheck ==
    /\ pc = "idle"
    /\ \E d \in 1..MaxDim, n \in 1..MaxDim, k \in 1..MaxDim, f \in 2..3,
          rows \in 1..MaxDim, outRows \in 1..2, extra \in 0..1,
          P \in WithBatchSize(SomeFlags, {1, DefaultParameters.batchSize}) :
          /\ mcbm = [o \in {1} |-> EModel(d, n, k, f)]
          /\ params = P
          /\ data = [input |-> Dataset(rows, 2, 0).input,
                     output |-> Dataset(rows, 2 + extra, 0).output,
                     outputRows |-> outRows]
    /\ x = <<>>
    /\ chk = <<>>
    /\ cg = <<>>
    /\ fx = <<>>
    /\ VecIdle /\ CfgIdle /\ CtorIdle

\* mcbm.cpp 419-437: the two checks of the data, each with the message of
\* its exception, then x = parameters(params) and the copy y of x.
CheckGradient ==
    /\ pc = "idle"
    /\ IF InputRows(data) # mcbm[1].mDimIn \/ OutputRows(data) # 1
       THEN /\ pc' = "Exception"
            /\ chk' = [what |-> "Data has wrong dimensionality."]
            /\ UNCHANGED x
       ELSE IF Len(data.input) # Len(data.output)
       THEN /\ pc' = "Exception"
            /\ chk' = [what |->
                         "The number of inputs and outputs should be the same."]
            /\ UNCHANGED x
       ELSE \E epsilon \in 1..MaxEpsilon :
               /\ x' = parameters(mcbm[1], params)
               /\ chk' = [epsilon |-> epsilon,
                          numParams |-> numParameters(mcbm[1], params),
                          y |-> parameters(mcbm[1], params),
                          g |-> <<>>, n |-> <<>>, i |-> 0,
                          val1 |-> <<>>, val2 |-> <<>>, evals |-> <<>>,
                          x0 |-> parameters(mcbm[1], params), this0 |-> mcbm[1],
                          ret |-> <<>>]
               /\ pc' = "loop"
    /\ UNCHANGED <<mcbm, params, vecVars, evalVars, cfgVars, ctorVars>>

\* evaluateLBFGS(&instance, buf, g, 0, 0.) as one step: the activation
\* record of computeGradient when it returns.
Evaluate(buf, gIsNull) == computeGradient(mcbm[1], data, buf, gIsNull, params)

\* y[i] = x[i] + epsilon; val1 = evaluateLBFGS(&instance, y, 0, 0, 0.);
CheckPlus ==
    /\ pc = "loop"
    /\ chk.i < chk.numParams
    /\ LET y1 == [chk.y EXCEPT ![chk.i + 1] = x[chk.i + 1] + chk.epsilon]
       IN chk' = [chk EXCEPT !.y = y1,
                             !.val1 = Evaluate(y1, TRUE).ret,
                             !.evals = Append(chk.evals, [at |-> y1, gIsNull |-> TRUE])]
    /\ pc' = "minus"
    /\ UNCHANGED <<mcbm, params, x, vecVars, evalVars, cfgVars, ctorVars>>

\* y[i] = x[i] - epsilon; val2 = evaluateLBFGS(&instance, y, 0, 0, 0.);
CheckMinus ==
    /\ pc = "minus"
    /\ LET y1 == [chk.y EXCEPT ![chk.i + 1] = x[chk.i + 1] - chk.epsilon]
       IN chk' = [chk EXCEPT !.y = y1,
                             !.val2 = Evaluate(y1, TRUE).ret,
                             !.evals = Append(chk.evals, [at |-> y1, gIsNull |-> TRUE])]
    /\ pc' = "restore"
    /\ UNCHANGED <<mcbm, params, x, vecVars, evalVars, cfgVars, ctorVars>>

\* A mutation of Restore: the perturbed coordinate is left as it is.
RestoreNot(y, buf, i) == y

\* y[i] = x[i];
Restore(y, buf, i) == [y EXCEPT ![i + 1] = buf[i + 1]]

\* y[i] = x[i]; n[i] = (val1 - val2) / (2. * epsilon); ++i.  The
\* difference of the two values log(a) / c and log(b) / c is log(a / b) / c.
CheckRestore ==
    /\ pc = "restore"
    /\ chk' = [chk EXCEPT
                 !.y = Restore(chk.y, x, chk.i),
                 !.n = Append(chk.n,
                         [logOf |-> RatMul(chk.val1.logOf,
                                           Rat(chk.val2.logOf.den, chk.val2.logOf.num)),
                          over |-> chk.val1.over * 2 * chk.epsilon]),
                 !.i = chk.i + 1]
    /\ pc' = "loop"
    /\ UNCHANGED <<mcbm, params, x, vecVars, evalVars, cfgVars, ctorVars>>

\* mcbm.cpp 452-460, after the loop: evaluateLBFGS(&instance, x, g, 0, 0.)
\* and the norm of g - n, kept as the two vectors it is computed from.
CheckAnalytic ==
    /\ pc = "loop"
    /\ ~(chk.i < chk.numParams)
    /\ LET a == Evaluate(x, FALSE)
           g == [i \in 1..chk.numParams |-> a.g[i - 1]]
       IN chk' = [chk EXCEPT
                    !.g = g,
                    !.evals = Append(chk.evals, [at |-> x, gIsNull |-> FALSE]),
                    !.ret = [normOfDifference |-> <<g, chk.n>>]]
    /\ pc' = "done"
    /\ UNCHANGED <<mcbm, params, x, vecVars, evalVars, cfgVars, ctorVars>>

NextCheck ==
    \/ CheckGradient
    \/ CheckPlus
    \/ CheckMinus
    \/ CheckRestore
    \/ CheckAnalytic

SpecCheck == InitCheck /\ [][NextCheck]_vars

----------------------------------------------------------------------------
(* MCBM::MCBM and MCBM::train. *)

\* The object the constructor leaves (mcbm.cpp 122-127): priors and biases
\* zero, weights positive, features and predictors of either sign; f picks
\* the random draw.
Constructed(dimIn, numComponents, numFeatures, f) ==
    LET shape == [mDimIn |-> dimIn, mNumComponents |-> numComponents,
                  mNumFeatures |-> numFeatures]
        zeros(g) == [rc \in Index(Rows(shape, g), Cols(shape, g)) |-> 0]
        random(g) == [rc \in Index(Rows(shape, g), Cols(shape, g)) |->
                         ((f + rc[1] + rc[2]) % 3) - 1]
    IN [mDimIn |-> dimIn, mNumComponents |-> numComponents,
        mNumFeatures |-> numFeatures,
        mPriors |-> zeros("mPriors"),
        mWeights |-> [rc \in Index(numComponents, numFeatures) |-> 1 + ((f + rc[1]) % 2)],
        mFeatures |-> random("mFeatures"),
        mPredictors |-> random("mPredictors"),
        mInputBias |-> zeros("mInputBias"),
        mOutputBias |-> zeros("mOutputBias")]

InitModel ==
    /\ pc = "idle"
    /\ mcbm = <<>>
    /\ params = DefaultParameters
    /\ x = <<>>
    /\ built = ""
    /\ ret = ""
    /\ lbfgs = "not run"
    /\ VecIdle /\ EvalIdle /\ ChkIdle /\ CfgIdle

\* The checks of the constructor (mcbm.cpp 116-119).
Validate(dimIn, mNumComponents, mNumFeatures) ==
    IF mNumComponents < 1
    THEN "Exception: The number of components has to be positive."
    ELSE IF mNumFeatures < 1
    THEN "Exception: The number of features has to be positive."
    ELSE "ok"

\* MCBM(dimIn, numComponents, numFeatures).  A negative number of rows
\* (mcbm.cpp 124-126) is outside what Eigen defines: the build either stops
\* at Eigen's assertion or fails to allocate.
Construct ==
    /\ pc = "idle"
    /\ \E dimIn \in -1..MaxDim, numComponents \in -1..MaxDim,
          numFeatures \in -1..MaxDim, f \in 1..2 :
          LET mNumFeatures == IF numFeatures < 0 THEN dimIn ELSE numFeatures
              checked == Validate(dimIn, numComponents, mNumFeatures)
              args == [dimIn |-> dimIn, numComponents |-> numComponents,
                       numFeatures |-> numFeatures]
          IN IF checked # "ok"
             THEN /\ built' = [args |-> args, outcome |-> checked]
                  /\ pc' = "failed"
                  /\ UNCHANGED mcbm
             ELSE IF dimIn < 0
             THEN /\ \E outcome \in {"assertion failed", "std::bad_alloc"} :
                        built' = [args |-> args, outcome |-> outcome]
                  /\ pc' = "failed"
                  /\ UNCHANGED mcbm
             ELSE /\ built' = [args |-> args, outcome |-> "constructed"]
                  /\ mcbm' = [o \in {1} |-> Constructed(dimIn, numComponents, mNumFeatures, f)]
                  /\ pc' = "constructed"
    /\ UNCHANGED <<params, x, vecVars, evalVars, chk, cfgVars, ret, lbfgs>>

\* MCBM::train(input, output, params): "return false;" and nothing else.
\* The optimizer is not called and the model is not touched.
Train ==
    /\ pc = "constructed"
    /\ \E P \in SomeFlags : params' = P
    /\ ret' = "false"
    /\ pc' = "trained"
    /\ UNCHANGED <<mcbm, x, vecVars, evalVars, chk, cfgVars, built, lbfgs>>

NextModel == Construct \/ Train

SpecModel == InitModel /\ [][NextModel]_vars

----------------------------------------------------------------------------
(* MCBM::Parameters objects and the callbacks they own.                    *)
(*                                                                         *)
(* cfgs[s] is the object in slot s, live between its construction and its  *)
(* destruction.  A callback pointer is 0 (null) or the index of a callback *)
(* object in heap; heap[c].deletes counts the "delete" calls on it.        *)

Slots == 1..MaxConfigs

Dead == [live |-> FALSE, p |-> DefaultParameters]

InitCfg ==
    /\ pc = "idle"
    /\ mcbm = <<>>
    /\ params = DefaultParameters
    /\ x = <<>>
    /\ cfgs = [s \in Slots |-> Dead]
    /\ heap = <<>>
    /\ VecIdle /\ EvalIdle /\ ChkIdle /\ CtorIdle

\* Callback::copy() (declared in mcbm.h): a new callback object.
CopyCallback(h) == Append(h, [deletes |-> 0])

\* Parameters::Parameters() in a free slot.
DefaultConstruct ==
    /\ \E s \in Slots :
          /\ ~cfgs[s].live
          /\ cfgs' = [cfgs EXCEPT ![s] = [live |-> TRUE, p |-> DefaultParameters]]
    /\ UNCHANGED <<pc, mcbm, params, x, vecVars, evalVars, chk, heap, ctorVars>>

\* The caller's "params.callback = new ..." on an object without callback.
SetCallback ==
    /\ Len(heap) < MaxCallbacks
    /\ \E s \in Slots :
          /\ cfgs[s].live
          /\ cfgs[s].p.callback = 0
          /\ heap' = Append(heap, [deletes |-> 0])
          /\ cfgs' = [cfgs EXCEPT ![s].p.callback = Len(heap) + 1]
    /\ UNCHANGED <<pc, mcbm, params, x, vecVars, evalVars, chk, ctorVars>>

\* Parameters::Parameters(const Parameters& params) in a free slot s, from
\* the live object in slot t.
CopyConstruct ==
    /\ Len(heap) < MaxCallbacks
    /\ \E s \in Slots, t \in Slots :
          /\ ~cfgs[s].live
          /\ cfgs[t].live
          /\ IF cfgs[t].p.callback # 0
             THEN /\ heap' = CopyCallback(heap)
                  /\ cfgs' = [cfgs EXCEPT ![s] =
                        [live |-> TRUE,
                         p |-> [cfgs[t].p EXCEPT !.callback = Len(heap) + 1]]]
             ELSE /\ heap' = heap
                  /\ cfgs' = [cfgs EXCEPT ![s] =
                        [live |-> TRUE, p |-> [cfgs[t].p EXCEPT !.callback = 0]]]
    /\ UNCHANGED <<pc, mcbm, params, x, vecVars, evalVars, chk, ctorVars>>

\* What operator= does to the callback the assigned object held: nothing
\* (mcbm.cpp 94 overwrites the pointer).
Released(h, old) == h

\* Parameters::operator=(const Parameters& params) on the live object in
\* slot s, from the live object in slot t; s may be t.
Assign ==
    /\ Len(heap) < MaxCallbacks
    /\ \E s \in Slots, t \in Slots :
          /\ cfgs[s].live
          /\ cfgs[t].live
          /\ IF cfgs[t].p.callback # 0
             THEN /\ heap' = Released(CopyCallback(heap), cfgs[s].p.callback)
                  /\ cfgs' = [cfgs EXCEPT ![s].p =
                        [cfgs[t].p EXCEPT !.callback = Len(heap) + 1]]
             ELSE /\ heap' = Released(heap, cfgs[s].p.callback)
                  /\ cfgs' = [cfgs EXCEPT ![s].p = [cfgs[t].p EXCEPT !.callback = 0]]
    /\ UNCHANGED <<pc, mcbm, params, x, vecVars, evalVars, chk, ctorVars>>

\* Parameters::~Parameters() on the live object in slot s.
Destroy ==
    /\ \E s \in Slots :
          /\ cfgs[s].live
          /\ heap' = IF cfgs[s].p.callback # 0
                     THEN [heap EXCEPT ![cfgs[s].p.callback].deletes =
                              heap[cfgs[s].p.callback].deletes + 1]
                     ELSE heap
          /\ cfgs' = [cfgs EXCEPT ![s] = Dead]
    /\ UNCHANGED <<pc, mcbm, params, x, vecVars, evalVars, chk, ctorVars>>

NextCfg ==
    \/ DefaultConstruct
    \/ SetCallback
    \/ CopyConstruct
    \/ Assign
    \/ Destroy

SpecCfg == InitCfg /\ [][NextCfg]_vars

----------------------------------------------------------------------------
(* Properties of the vectorization layer. *)

\* Sum of the sizes of the flagged groups among the first n groups.
RECURSIVE FlaggedSize(_, _, _)
FlaggedSize(m, P, n) ==
    IF n = 0 THEN 0
    ELSE FlaggedSize(m, P, n - 1)
         + (IF Flag(P, Groups[n]) THEN Size(m, Groups[n]) ELSE 0)

\* Where the span of group g starts in the flat layout: the sizes of the
\* flagged groups that precede it in the fixed order.
SpanStart(m, P, g) == FlaggedSize(m, P, GroupIndex(g) - 1)

\* The index span (counted from 0) of a flagged group in the flat layout.
Span(m, P, g) == SpanStart(m, P, g)..(SpanStart(m, P, g) + Size(m, g) - 1)

\* Length of the flat layout.
TotalSize(m, P) == FlaggedSize(m, P, Len(Groups))

\* C2: the buffer built by parameters(cfg) is the concatenation of the
\* flagged groups in the order priors, weights, features, predictors,
\* inputBias, outputBias: its length is the sum of the flagged sizes, element
\* i of a flagged group sits at (start of the group's span) + i, and an
\* unflagged group contributes no entry.
C2_FlatLayout ==
    pc = "flat" =>
        /\ Len(x) = TotalSize(mcbm[src], params)
        /\ \A g \in GroupSet :
              Flag(params, g) =>
                 \A rc \in DOMAIN mcbm[src][g] :
                    x[SpanStart(mcbm[src], params, g)
                      + rc[2] * Rows(mcbm[src], g) + rc[1] + 1] = mcbm[src][g][rc]

\* A buffer with a skipped group between two copied ones, a two by two
\* group copied, and every element of the store distinct.
C2_Witness ==
    /\ pc = "flat"
    /\ params.trainPriors /\ ~params.trainWeights /\ params.trainFeatures
    /\ ~params.trainPredictors /\ params.trainOutputBias
    /\ mcbm[src].mDimIn = 2 /\ mcbm[src].mNumFeatures = 2
    /\ mcbm[src].mFeatures[<<0, 1>>] # mcbm[src].mFeatures[<<1, 0>>]
    /\ Len(x) = 2 * mcbm[src].mNumComponents + 4

\* C1: setParameters(parameters(s, cfg), cfg) applied to s' makes every
\* flagged group of s' equal to that group of s, element for element, and
\* leaves every unflagged group of s' as it was before the call.
C1_RoundTrip ==
    [][(pc = "flat" /\ pc' = "set") =>
          \A g \in GroupSet :
             IF Flag(params, g)
             THEN mcbm'[dst'][g] = mcbm[src][g]
             ELSE mcbm'[dst'][g] = mcbm[dst'][g]]_vars

\* A round trip between two objects of different contents, with a two by
\* two group carried over and another group left alone.
C1_Witness ==
    /\ pc = "set"
    /\ src # dst
    /\ params.trainWeights /\ ~params.trainFeatures /\ params.trainInputBias
    /\ mcbm[src].mDimIn = 2 /\ mcbm[src].mNumComponents = 2 /\ mcbm[src].mNumFeatures = 2
    /\ mcbm[src].mWeights[<<0, 1>>] # mcbm[src].mWeights[<<1, 0>>]
    /\ mcbm[dst].mWeights = mcbm[src].mWeights
    /\ mcbm[dst].mInputBias = mcbm[src].mInputBias
    /\ mcbm[dst].mFeatures # mcbm[src].mFeatures

----------------------------------------------------------------------------
(* Properties of computeGradient and evaluateLBFGS. *)

\* A call of computeGradient is under way or over.
InCall == pc \in {"computeGradient", "done", "aborted"}

\* C3: with a gradient buffer, computeGradient writes the gradient of each
\* flagged group into exactly the index span the group's values have in the
\* buffer of parameters() under the same flags: every write through a view
\* is one of a flagged group inside that span, the spans of distinct flagged
\* groups are disjoint, the normalization writes inside [0, total) only,
\* memory outside [0, total) is never written, and when the call returns
\* each flagged span has been written in full.
C3_GradientSpans ==
    (InCall /\ ~cg.gIsNull) =>
        LET m == mcbm[1]
            total == TotalSize(m, params)
        IN /\ \A w \in cg.writes :
                 /\ w[2] \in 0..(total - 1)
                 /\ w[1] \in GroupSet =>
                       Flag(params, w[1]) /\ w[2] \in Span(m, params, w[1])
           /\ \A g1 \in GroupSet, g2 \in GroupSet :
                 (g1 # g2 /\ Flag(params, g1) /\ Flag(params, g2)) =>
                    Span(m, params, g1) \cap Span(m, params, g2) = {}
           /\ \A i \in DOMAIN cg.g : i >= total => cg.g[i] = Uninit
           /\ cg.pc \in {"zero", "loop", "return"} =>
                 \A g1 \in GroupSet :
                    Flag(params, g1) =>
                       /\ cg.gradAt[g1] = SpanStart(m, params, g1)
                       /\ cg.value[g1] =
                             MapMatrix(parameters(setParameters(m, x, params), params),
                                       SpanStart(m, params, g1), Rows(m, g1), Cols(m, g1))
           /\ cg.pc = "return" =>
                 /\ \A g1 \in GroupSet :
                       Flag(params, g1) =>
                          {w[2] : w \in {v \in cg.writes : v[1] = g1}} = Span(m, params, g1)
                 /\ {w[2] : w \in cg.writes} = 0..(total - 1)
                 /\ \A i \in 0..(total - 1) : cg.g[i] # Uninit

\* A finished call with a gradient buffer where an unflagged group lies
\* between two flagged ones and the last group is unflagged.
C3_Witness ==
    /\ pc = "done" /\ ~cg.gIsNull
    /\ params.trainPriors /\ ~params.trainWeights /\ params.trainFeatures
    /\ params.trainInputBias /\ ~params.trainOutputBias
    /\ mcbm[1].mDimIn = 2 /\ mcbm[1].mNumComponents = 2
    /\ \E w \in cg.writes : w[1] = "mInputBias"
    /\ Len(cg.slices) = 2

\* The log-likelihood of each column under the stored parameters of m, as
\* MCBM::logLikelihood computes it (mcbm.cpp 165-192): the rational inside
\* the logarithm.
logLikelihood(m, ds) ==
    [n \in 1..Len(ds.input) |-> Column(m, m, ds.input[n], ds.output[n]).prob]

\* All columns of the dataset.
AllCols == 0..(Len(data.input) - 1)

\* C9: for a batch size of at least one, the batch loop visits contiguous
\* slices [b, b + len) in increasing order with 1 <= len <= batchSize, only
\* the last slice is shorter than min(batchSize, N), every column lies in
\* exactly one slice once the loop is over, and the accumulated
\* log-likelihood and gradient are then the sums over all N columns, which
\* do not depend on the batch size.
C9_Batches ==
    (InCall /\ cg.pc \in {"loop", "return"}) =>
        LET m == mcbm[1]
            N == Len(data.input)
            sl == cg.slices
            over == cg.pc = "return" \/ ~(cg.b < cg.numData)
        IN /\ \A j \in 1..Len(sl) :
                 /\ sl[j][1] = (IF j = 1 THEN 0 ELSE sl[j - 1][1] + sl[j - 1][2])
                 /\ sl[j][2] >= 1 /\ sl[j][2] <= params.batchSize
                 /\ sl[j][1] + sl[j][2] <= N
                 /\ j < Len(sl) => sl[j][2] = Min(params.batchSize, N)
           /\ over =>
                 /\ \A n \in AllCols :
                       Cardinality({j \in 1..Len(sl) :
                           n \in MiddleCols(sl[j][1], sl[j][2])}) = 1
                 /\ cg.logLik =
                       RatProdOver(logLikelihood(setParameters(m, x, params), data),
                                   1..N)
           /\ (over /\ cg.pc = "loop" /\ ~cg.gIsNull) =>
                 \A g1 \in GroupSet :
                    Flag(params, g1) =>
                       \A i \in Span(m, params, g1) :
                          cg.g[i] = BatchGradient(cg, m, data, AllCols, g1, i)

\* A finished call on three columns in batches of two with a gradient
\* buffer: two slices, the last one shorter.
C9_Witness ==
    /\ pc = "done" /\ ~cg.gIsNull
    /\ Len(data.input) = 3 /\ params.batchSize = 2
    /\ cg.slices = <<(<<0, 2>>), (<<2, 1>>)>>
    /\ params.trainWeights /\ params.trainFeatures

\* C4, as claimed: the value evaluateLBFGS returns is the negative of the
\* normalized log-likelihood of the data under the parameters in x, hence
\* not negative, and the gradient is the one of that negated quantity: where
\* every output is 1, raising an output bias raises the log-likelihood, so
\* no output-bias entry of the gradient is positive.
C4_NegativeLogLikelihood ==
    pc = "done" =>
        LET m == setParameters(mcbm[1], x, params)
            N == Len(data.input)
            L == RatProdOver(logLikelihood(m, data), 1..N)
        IN /\ fx = [logOf |-> Rat(L.den, L.num), over |-> N]
           /\ fx.logOf.num >= fx.logOf.den
           /\ (~cg.gIsNull /\ params.trainOutputBias
               /\ \A n \in 1..N : data.output[n] = 1) =>
                 \A i \in Span(mcbm[1], params, "mOutputBias") : cg.g[i].num <= 0

\* C10, as claimed: for any configured batch size, zero and negative ones
\* included, the call does not fail and every slice it processes starts at
\* a column in 0..N-1 and has at least one column.
C10_SlicesAnyBatchSize ==
    InCall =>
        /\ pc # "aborted"
        /\ \A j \in 1..Len(cg.slices) :
              /\ cg.slices[j][1] \in AllCols
              /\ cg.slices[j][2] >= 1

----------------------------------------------------------------------------
(* Properties of checkGradient. *)

\* The vector v with d added at coordinate i (counted from 0).
Perturbed(v, i, d) == [v EXCEPT ![i + 1] = v[i + 1] + d]

\* C8: in checkGradient, y equals x in every coordinate at the start and at
\* the end of every iteration of the finite-difference loop; in iteration i
\* the two evaluations see x with + epsilon, then with - epsilon, at
\* coordinate i alone; the analytic gradient comes from exactly one
\* evaluation, at the unperturbed x; and neither x nor the stored
\* parameters of the model change during the call.
C8_CheckGradient ==
    pc \in {"loop", "minus", "restore", "done"} =>
        /\ x = chk.x0
        /\ mcbm[1] = chk.this0
        /\ x = parameters(mcbm[1], params)
        /\ pc \in {"loop", "done"} =>
              /\ chk.y = x
              /\ Len(chk.evals) = 2 * chk.i + (IF pc = "done" THEN 1 ELSE 0)
        /\ pc = "minus" =>
              /\ chk.y = Perturbed(x, chk.i, chk.epsilon)
              /\ Len(chk.evals) = 2 * chk.i + 1
        /\ pc = "restore" =>
              /\ chk.y = Perturbed(x, chk.i, -chk.epsilon)
              /\ Len(chk.evals) = 2 * chk.i + 2
        /\ \A j \in 1..Len(chk.evals) :
              IF j > 2 * chk.numParams
              THEN chk.evals[j] = [at |-> x, gIsNull |-> FALSE]
              ELSE chk.evals[j] =
                      [at |-> Perturbed(x, (j - 1) \div 2,
                                 IF j % 2 = 1 THEN chk.epsilon ELSE -chk.epsilon),
                       gIsNull |-> TRUE]
        /\ pc = "done" =>
              /\ chk.i = chk.numParams
              /\ Cardinality({j \in 1..Len(chk.evals) : ~chk.evals[j].gIsNull}) = 1

\* A finished check of a model with several parameters of different values
\* flagged: the loop ran more than once.
C8_Witness ==
    /\ pc = "done"
    /\ chk.numParams >= 4
    /\ \E i \in 1..Len(x), j \in 1..Len(x) : x[i] # x[j]
    /\ Len(chk.evals) = 2 * chk.numParams + 1
    /\ chk.epsilon = 2

----------------------------------------------------------------------------
(* Properties of the constructor, of train and of the configurations. *)

\* C5, as claimed: train runs the optimizer until the gradient norm is under
\* the threshold, maxIter iterations are used up or a line search fails, and
\* returns failure only in the last two cases.
C5_TrainRunsOptimizer ==
    pc = "trained" =>
        /\ lbfgs \in {"converged", "maximum iterations", "line search failed"}
        /\ ret = "false" => lbfgs \in {"maximum iterations", "line search failed"}
        /\ lbfgs = "converged" => ret = "true"

\* C6, as claimed: construction fails with a configuration error whenever
\* dimIn, numComponents or the effective numFeatures is less than 1, and
\* succeeds only when all three are at least 1.
C6_ConstructorRejects ==
    pc \in {"constructed", "failed", "trained"} =>
        LET a == built.args
            effective == IF a.numFeatures < 0 THEN a.dimIn ELSE a.numFeatures
            valid == a.dimIn >= 1 /\ a.numComponents >= 1 /\ effective >= 1
        IN /\ built.outcome = "constructed" <=> valid
           /\ ~valid => built.outcome \in
                 {"Exception: The number of components has to be positive.",
                  "Exception: The number of features has to be positive.",
                  "Exception: The number of inputs has to be positive."}

\* The callback objects held by live configurations.
Held == {cfgs[s].p.callback : s \in {t \in Slots : cfgs[t].live}} \ {0}

\* C7, as claimed: no callback object is held by two live configurations,
\* none is released twice, none that is still held has been released, and
\* once every configuration is destroyed every callback object has been
\* released exactly once.
C7_CallbackOwnership ==
    /\ \A s \in Slots, t \in Slots :
          (s # t /\ cfgs[s].live /\ cfgs[t].live /\ cfgs[s].p.callback # 0) =>
             cfgs[s].p.callback # cfgs[t].p.callback
    /\ \A c \in DOMAIN heap : heap[c].deletes <= 1
    /\ \A c \in Held : heap[c].deletes = 0
    /\ (\A s \in Slots : ~cfgs[s].live) =>
          \A c \in DOMAIN heap : heap[c].deletes = 1

====
